---- MODULE Spec2Model ----
(***************************************************************************)
(* Model of lisa/analysis/rta.py (RTAEventsAnalysis): the queries of the   *)
(* rt-app trace analysis over an immutable, loaded trace.                  *)
(*                                                                         *)
(* The state is the loaded trace plus the last query made on it and what   *)
(* that query produced (a value or the exception it raised).  The trace is *)
(* seen through the columns the queries read: loops and main are the       *)
(* rtapp_loop and rtapp_main tables, stats the rtapp_stats table, and      *)
(* trace holds, per rt-app event kind, the task identity columns (pid,     *)
(* comm) of its rows.  Timestamps are modelled as integers (exact          *)
(* arithmetic); tables are sequences of rows in ascending timestamp order, *)
(* as the trace store supplies them.                                       *)
(***************************************************************************)
EXTENDS Integers, Sequences, FiniteSets, TLC

VARIABLES loops, main, trace, stats, op, arg, res

vars == <<loops, main, trace, stats, op, arg, res>>

\* ------------------------------------------------------------------ bounds
MaxLen == 4        \* rows of the rtapp_loop table (phase reconstruction)
MaxTime == 5       \* timestamps are drawn from 1..MaxTime
MaxPhase == 1      \* phase ordinals are drawn from 0..MaxPhase
MaxLoop == 1       \* phase_loop counters are drawn from 0..MaxLoop
MaxData == 1       \* clock_ref payloads are drawn from 0..MaxData
MaxPid == 2        \* pids of the tasks of a trace are drawn from 1..MaxPid
MaxCalls == 2      \* generators made on one trace

\* the data column of the rtapp_main rows that are not clock_ref
NaN == -1

\* ------------------------------------------------------------ result values
Ok(v) == [err |-> "none", val |-> v]
Raise(e) == [err |-> e, val |-> <<>>]

\* namedtuples of the module
RefTime(kernel, user) == [kernel |-> kernel, user |-> user]
PhaseWindow(id, start, end) == [id |-> id, start |-> start, end |-> end]

TaskID(pid, comm) == [pid |-> pid, comm |-> comm]

\* List of ftrace events rtapp is able to emit
RTAPP_USERSPACE_EVENTS ==
    <<"rtapp_main", "rtapp_task", "rtapp_loop", "rtapp_event", "rtapp_stats">>

\* --------------------------------------------------------- input generation
Events == {"start", "end"}

\* task names, in string order
Names == <<"", "a", "b", "c">>

\* the tasks that emit rt-app events in the generated traces
TraceTasks == {TaskID(pid, "a") : pid \in 1..MaxPid} \cup {TaskID(MaxPid, "b")}

\* the task of the single-task traces, and the rt-app main thread
Task0 == TaskID(MaxPid, "a")
MainTask == TaskID(MaxPid - 1, "b")

\* the identity columns of a table all of whose rows belong to one task
IdentityOf(table, task) == [i \in 1..Len(table) |-> task]

RECURSIVE IdentityTables(_)
\* the identity columns of a table of n rows
IdentityTables(n) ==
    IF n = 0 THEN {<<>>}
    ELSE {<<t>> \o r : t \in TraceTasks, r \in IdentityTables(n - 1)}

RECURSIVE TracesOver(_, _)
\* the identity columns of the tables of the kinds-th and later event kinds,
\* holding n rows in all
TracesOver(kinds, n) ==
    IF kinds > Len(RTAPP_USERSPACE_EVENTS) THEN (IF n = 0 THEN {<<>>} ELSE {})
    ELSE UNION {
        LET rest == TracesOver(kinds + 1, n - m)
        IN {<<t>> \o r : t \in IdentityTables(m), r \in rest}
        : m \in 0..n}

\* traces whose rt-app event tables hold at most maxRows rows in all
Traces(maxRows) == UNION {TracesOver(1, n) : n \in 0..maxRows}

RECURSIVE StatsOf(_)
\* an rtapp_stats table with the given identity columns
StatsOf(ids) ==
    IF ids = <<>> THEN <<>>
    ELSE <<[pid |-> Head(ids).pid, comm |-> Head(ids).comm,
            slack |-> 0, c_run |-> 0, c_period |-> MaxData]>> \o StatsOf(Tail(ids))

\* the counters of one activation
Slacks == {0 - MaxData, 0, MaxData}
CRuns == {0, MaxData}
CPeriods == {MaxData, MaxData + 1}

StatsRows ==
    {[pid |-> t.pid, comm |-> t.comm, slack |-> s, c_run |-> r, c_period |-> p] :
        t \in {Task0, MainTask}, s \in Slacks, r \in CRuns, p \in CPeriods}

RECURSIVE StatsTablesOf(_)
\* the rtapp_stats tables of n rows
StatsTablesOf(n) ==
    IF n = 0 THEN {<<>>}
    ELSE {<<row>> \o r : row \in StatsRows, r \in StatsTablesOf(n - 1)}

StatsTables(maxLen) == UNION {StatsTablesOf(n) : n \in 0..maxLen}

\* a trace that holds only rtapp_stats events
TraceOfStats(statsTable) ==
    <<<<>>, <<>>, <<>>, <<>>,
      [i \in 1..Len(statsTable) |-> TaskID(statsTable[i].pid, statsTable[i].comm)]>>

\* rows i..j of a loop table are a maximal run of rows of one phase
IsRunOf(table, i, j) ==
    /\ i <= j
    /\ \A k \in i..j : table[k].phase = table[i].phase
    /\ (i = 1 \/ table[i - 1].phase # table[i].phase)
    /\ (j = Len(table) \/ table[j + 1].phase # table[j].phase)

\* a loop table no phase of which is cut short: every run of a phase begins
\* with the phase_loop == 0 'start' event of the phase and ends with the
\* 'end' event that carries the greatest loop counters of the phase
UntruncatedStream(table) ==
    \A i, j \in 1..Len(table) :
        IsRunOf(table, i, j) =>
            /\ table[i].event = "start" /\ table[i].phase_loop = 0
            /\ table[j].event = "end"
            /\ \A k \in i..(j - 1) :
                   table[k].event = "end" =>
                       \/ table[k].phase_loop < table[j].phase_loop
                       \/ /\ table[k].phase_loop = table[j].phase_loop
                          /\ table[k].thread_loop < table[j].thread_loop

RECURSIVE UntruncatedFrom(_, _, _, _, _, _, _)
\* the untruncated continuations of n rows with timestamps in
\* firstTime..maxTime: when open, a run of phase is under way and top is the
\* greatest phase_loop of its 'end' events so far (-1 if none); otherwise the
\* next row begins the run of a phase from phase on
UntruncatedFrom(n, firstTime, maxTime, phase, open, top, phaseLoops) ==
    IF n = 0 THEN (IF open THEN {} ELSE {<<>>})
    ELSE UNION {
        IF ~open
        THEN UNION {
                 {<<[Time |-> t, event |-> "start", phase |-> p, phase_loop |-> 0, thread_loop |-> 0]>> \o r :
                     r \in UntruncatedFrom(n - 1, t + 1, maxTime, p, TRUE, 0 - 1, phaseLoops)}
                 : p \in phase..MaxPhase}
        ELSE UNION {
                 {<<[Time |-> t, event |-> "start", phase |-> phase, phase_loop |-> l, thread_loop |-> 0]>> \o r :
                     r \in UntruncatedFrom(n - 1, t + 1, maxTime, phase, TRUE, top, phaseLoops)}
                 \cup
                 {<<[Time |-> t, event |-> "end", phase |-> phase, phase_loop |-> l, thread_loop |-> 0]>> \o r :
                     r \in UntruncatedFrom(n - 1, t + 1, maxTime, phase, TRUE,
                                           IF l > top THEN l ELSE top, phaseLoops)
                            \cup (IF l > top
                                  THEN UntruncatedFrom(n - 1, t + 1, maxTime, phase + 1, FALSE, 0, phaseLoops)
                                  ELSE {})}
                 : l \in phaseLoops}
        : t \in firstTime..maxTime}

\* the untruncated rtapp_loop tables of at most maxLen rows
UntruncatedTables(maxLen, maxTime, phaseLoops) ==
    UNION {UntruncatedFrom(n, 1, maxTime, 0, FALSE, 0, phaseLoops) : n \in 0..maxLen}

\* a trace that holds only rtapp_main and rtapp_loop events
TraceOf(mainTable, loopTable) ==
    <<IdentityOf(mainTable, MainTask), <<>>, IdentityOf(loopTable, Task0), <<>>, <<>>>>

RECURSIVE LoopTablesFrom(_, _, _, _, _, _)
\* the tables of n loop rows with timestamps in firstTime..maxTime and phases in
\* firstPhase..MaxPhase: timestamps strictly increase down the table, and the
\* phase ordinal of a task only grows over time
LoopTablesFrom(n, firstTime, maxTime, firstPhase, phaseLoops, threadLoops) ==
    IF n = 0 THEN {<<>>}
    ELSE UNION {
        LET rest == LoopTablesFrom(n - 1, t + 1, maxTime, p, phaseLoops, threadLoops)
        IN {<<[Time |-> t, event |-> e, phase |-> p, phase_loop |-> l, thread_loop |-> k]>> \o r :
               e \in Events, l \in phaseLoops, k \in threadLoops, r \in rest}
        : t \in firstTime..maxTime, p \in firstPhase..MaxPhase}

\* rtapp_loop tables of at most maxLen rows, in ascending timestamp order
LoopTables(maxLen, maxTime, phaseLoops, threadLoops) ==
    UNION {LoopTablesFrom(n, 1, maxTime, 0, phaseLoops, threadLoops) : n \in 0..maxLen}

\* rtapp_main rows: only clock_ref rows carry a payload
MainRows ==
    {<<"start", NaN>>, <<"end", NaN>>} \cup {<<"clock_ref", u>> : u \in 0..MaxData}

RECURSIVE MainTablesFrom(_, _, _)
MainTablesFrom(n, firstTime, maxTime) ==
    IF n = 0 THEN {<<>>}
    ELSE UNION {
        LET rest == MainTablesFrom(n - 1, t + 1, maxTime)
        IN {<<[Time |-> t, event |-> d[1], data |-> d[2]]>> \o r : d \in MainRows, r \in rest}
        : t \in firstTime..maxTime}

\* rtapp_main tables of at most maxLen rows, in ascending timestamp order
MainTables(maxLen, maxTime) == UNION {MainTablesFrom(n, 1, maxTime) : n \in 0..maxLen}

\* ------------------------------------------------------------ trace store
\* an event kind is available iff the trace captured at least one such event
has_events(table) == table # <<>>

\* position of an event kind in RTAPP_USERSPACE_EVENTS
KindIndex(event) ==
    CHOOSE i \in 1..Len(RTAPP_USERSPACE_EVENTS) : RTAPP_USERSPACE_EVENTS[i] = event

\* trace.df_events(event), reduced to the identity columns
df_events(event) ==
    IF has_events(trace[KindIndex(event)]) THEN Ok(trace[KindIndex(event)])
    ELSE Raise("MissingTraceEventError")

\* ------------------------------------------------------------ task registry
RECURSIVE drop_duplicates(_)
\* df[['__pid', '__comm']].drop_duplicates(): first occurrences, in order
drop_duplicates(df) ==
    IF df = <<>> THEN <<>>
    ELSE LET init == drop_duplicates(SubSeq(df, 1, Len(df) - 1))
             last == df[Len(df)]
         IN IF \E i \in 1..Len(init) : init[i] = last THEN init ELSE Append(init, last)

\* order of the TaskID tuples: by pid, then by name
CommRank(comm) == CHOOSE i \in 1..Len(Names) : Names[i] = comm
TaskLess(a, b) ==
    \/ a.pid < b.pid
    \/ a.pid = b.pid /\ CommRank(a.comm) < CommRank(b.comm)

RECURSIVE sorted_task_ids(_)
\* sorted(task_ids)
sorted_task_ids(task_ids) ==
    IF task_ids = {} THEN <<>>
    ELSE LET m == CHOOSE t \in task_ids : \A u \in task_ids \ {t} : TaskLess(t, u)
         IN <<m>> \o sorted_task_ids(task_ids \ {m})

RECURSIVE collect_task_ids(_)
\* the loop over RTAPP_USERSPACE_EVENTS from position i on: kinds that are
\* missing from the trace are skipped
collect_task_ids(i) ==
    IF i > Len(RTAPP_USERSPACE_EVENTS) THEN {}
    ELSE LET df == df_events(RTAPP_USERSPACE_EVENTS[i])
             found == IF df.err # "none" THEN {}
                      ELSE {drop_duplicates(df.val)[k] : k \in 1..Len(drop_duplicates(df.val))}
         IN found \cup collect_task_ids(i + 1)

\* stops at the first event kind that is present
rtapp_tasks_first_kind ==
    LET present == {i \in 1..Len(RTAPP_USERSPACE_EVENTS) : has_events(trace[i])}
    IN IF present = {} THEN Raise("MissingTraceEventError")
       ELSE LET i == CHOOSE k \in present : \A j \in present : k <= j
            IN Ok(sorted_task_ids({trace[i][k] : k \in 1..Len(trace[i])}))

\* requires every event kind
rtapp_tasks_requires_all ==
    IF \E i \in 1..Len(RTAPP_USERSPACE_EVENTS) : ~has_events(trace[i])
    THEN Raise("MissingTraceEventError")
    ELSE Ok(sorted_task_ids(collect_task_ids(1)))

\* rtapp_tasks: requires one event of RTAPP_USERSPACE_EVENTS
rtapp_tasks ==
    IF \A i \in 1..Len(RTAPP_USERSPACE_EVENTS) : ~has_events(trace[i])
    THEN Raise("MissingTraceEventError")
    ELSE Ok(sorted_task_ids(collect_task_ids(1)))

\* -------------------------------------------------------------- task filter
\* the task argument of a query: omitted (None), a bare pid, a bare name or
\* a TaskID
NoTask == [kind |-> "None", pid |-> 0, comm |-> ""]
PidTask(pid) == [kind |-> "pid", pid |-> pid, comm |-> ""]
NameTask(comm) == [kind |-> "name", pid |-> 0, comm |-> comm]
FullTask(pid, comm) == [kind |-> "TaskID", pid |-> pid, comm |-> comm]

\* "not task": None, the integer 0 and the empty string are false, a TaskID
\* tuple never is
Falsy(task) ==
    \/ task.kind = "None"
    \/ task.kind = "pid" /\ task.pid = 0
    \/ task.kind = "name" /\ task.comm = ""

\* a task of the trace that emits no rt-app event
OtherTask == TaskID(MaxPid + 1, "c")

\* the tasks the trace knows
TraceTaskIds ==
    {OtherTask} \cup
        UNION {{trace[i][k] : k \in 1..Len(trace[i])} : i \in 1..Len(trace)}

\* trace.get_task_id(task): a TaskID is taken as it is, a bare pid or name
\* resolves to the one task of the trace that carries it
get_task_id(task) ==
    IF task.kind = "TaskID" THEN Ok(TaskID(task.pid, task.comm))
    ELSE LET found == {t \in TraceTaskIds :
                          IF task.kind = "pid" THEN t.pid = task.pid
                          ELSE t.comm = task.comm}
         IN IF Cardinality(found) = 1 THEN Ok(CHOOSE t \in found : TRUE)
            ELSE Raise("ValueError")

\* df_filter_task_ids(df, [task], pid_col='__pid', comm_col='__comm')
df_filter_task_ids(df, task) ==
    SelectSeq(df, LAMBDA row : row.pid = task.pid /\ row.comm = task.comm)

\* _task_filtered(df, task)
_task_filtered(df, task) ==
    IF Falsy(task) THEN Ok(df)
    ELSE LET id == get_task_id(task)
         IN IF id.err # "none" THEN id
            ELSE IF rtapp_tasks.err # "none" THEN rtapp_tasks
            ELSE IF \A k \in 1..Len(rtapp_tasks.val) : rtapp_tasks.val[k] # id.val
                 THEN Raise("ValueError")
            ELSE Ok(df_filter_task_ids(df, id.val))

\* df_rtapp_task(task), reduced to the identity columns
df_rtapp_task(task) ==
    LET df == df_events("rtapp_task")
    IN IF df.err # "none" THEN df ELSE _task_filtered(df.val, task)

\* --------------------------------------------------------------- statistics
Abs(x) == IF x < 0 THEN 0 - x ELSE x
Sign(x) == IF x < 0 THEN 0 - 1 ELSE IF x > 0 THEN 1 ELSE 0

RECURSIVE Gcd(_, _)
Gcd(a, b) == IF b = 0 THEN a ELSE Gcd(b, a % b)

\* the quotient a / b as a fraction in lowest terms with a positive
\* denominator; a zero divisor gives the non-finite values of float division,
\* written with denominator 0: 1/0 is inf, -1/0 is -inf and 0/0 is nan
Div(a, b) ==
    IF b = 0 THEN [num |-> Sign(a), den |-> 0]
    ELSE LET g == Gcd(Abs(a), Abs(b))
         IN [num |-> (Sign(b) * a) \div g, den |-> Abs(b) \div g]

WithPerfIndex(row, perf_index) ==
    [pid |-> row.pid, comm |-> row.comm, slack |-> row.slack, c_run |-> row.c_run,
     c_period |-> row.c_period, perf_index |-> perf_index]

\* divides the slack by the period alone
_get_stats_over_period ==
    IF ~has_events(stats) THEN [store |-> stats, df |-> Raise("MissingTraceEventError")]
    ELSE [store |-> stats,
          df |-> Ok([i \in 1..Len(stats) |->
                      WithPerfIndex(stats[i], Div(stats[i].slack, stats[i].c_period))])]

\* _get_stats(): store is the table of the trace after the call, df the
\* deep copy that got the perf_index column
_get_stats ==
    IF ~has_events(stats) THEN [store |-> stats, df |-> Raise("MissingTraceEventError")]
    ELSE [store |-> stats,
          df |-> Ok([i \in 1..Len(stats) |->
                      WithPerfIndex(stats[i],
                                    Div(stats[i].slack, stats[i].c_period - stats[i].c_run))])]

\* df_rtapp_stats(task)
df_rtapp_stats(task) ==
    IF _get_stats.df.err # "none" THEN _get_stats.df
    ELSE _task_filtered(_get_stats.df.val, task)

\* df_rtapp_main(): the events of the rt-app main thread
df_rtapp_main == IF has_events(main) THEN Ok(main) ELSE Raise("MissingTraceEventError")

\* rtapp_window: timestamps of the main thread's first 'start' and first 'end'
rtapp_window ==
    IF df_rtapp_main.err # "none" THEN df_rtapp_main
    ELSE LET df == df_rtapp_main.val
             starts == SelectSeq(df, LAMBDA r : r.event = "start")
             ends == SelectSeq(df, LAMBDA r : r.event = "end")
         IN IF starts = <<>> \/ ends = <<>> THEN Raise("IndexError")
            ELSE Ok(<<starts[1].Time, ends[1].Time>>)

\* rtapp_reftime: the first clock_ref row of the main thread's events
rtapp_reftime ==
    IF df_rtapp_main.err # "none" THEN df_rtapp_main
    ELSE LET df == SelectSeq(df_rtapp_main.val, LAMBDA r : r.event = "clock_ref")
         IN IF df = <<>> THEN Raise("IndexError")
            ELSE Ok(<<RefTime(df[1].Time, df[1].data)>>)

\* df_rtapp_loop(task): the loop table of the (single) rt-app task of the trace
df_rtapp_loop == IF has_events(loops) THEN Ok(loops) ELSE Raise("MissingTraceEventError")

\* ------------------------------------------------- loop-to-phase reconstructor
RECURSIVE df_split_signals(_)
\* maximal runs of adjacent rows with equal phase, in time order
df_split_signals(df) ==
    IF df = <<>> THEN <<>>
    ELSE LET rest == df_split_signals(Tail(df))
         IN IF rest # <<>> /\ rest[1][1].phase = Head(df).phase
            THEN <<(<<Head(df)>> \o rest[1])>> \o Tail(rest)
            ELSE <<(<<Head(df)>>)>> \o rest

\* keeps a trailing 'start' row
filter_partial_loop_keeps_start(df) ==
    IF df # <<>> /\ df[1].event = "end" THEN Tail(df) ELSE df

\* keeps a leading 'end' row
filter_partial_loop_keeps_end(df) ==
    IF df # <<>> /\ df[Len(df)].event = "start" THEN SubSeq(df, 1, Len(df) - 1) ELSE df

filter_partial_loop(df) ==
    LET d1 == IF df # <<>> /\ df[1].event = "end" THEN Tail(df) ELSE df
    IN IF d1 # <<>> /\ d1[Len(d1)].event = "start"
       THEN SubSeq(d1, 1, Len(d1) - 1)
       ELSE d1

get_duration(phase, df) ==
    [start |-> df[1].Time, phase |-> phase, duration |-> df[Len(df)].Time - df[1].Time]

RECURSIVE InsertByStart(_, _)
InsertByStart(row, s) ==
    IF s = <<>> THEN <<row>>
    ELSE IF row.start < Head(s).start THEN <<row>> \o s
    ELSE <<Head(s)>> \o InsertByStart(row, Tail(s))

RECURSIVE InsertByStartDesc(_, _)
InsertByStartDesc(row, s) ==
    IF s = <<>> THEN <<row>>
    ELSE IF row.start > Head(s).start THEN <<row>> \o s
    ELSE <<Head(s)>> \o InsertByStartDesc(row, Tail(s))

RECURSIVE sorted_descending(_)
\* latest phase first
sorted_descending(s) ==
    IF s = <<>> THEN <<>> ELSE InsertByStartDesc(Head(s), sorted_descending(Tail(s)))

RECURSIVE sorted(_)
\* sorted(): ascending by the first tuple member, the start timestamp
sorted(s) == IF s = <<>> THEN <<>> ELSE InsertByStart(Head(s), sorted(Tail(s)))

phases_df_list(loops_df) ==
    LET runs == df_split_signals(loops_df)
    IN [i \in 1..Len(runs) |-> [phase |-> runs[i][1].phase, df |-> filter_partial_loop(runs[i])]]

durations(loops_df) ==
    LET l == phases_df_list(loops_df)
        kept == SelectSeq(l, LAMBDA e : e.df # <<>>)
    IN sorted([i \in 1..Len(kept) |-> get_duration(kept[i].phase, kept[i].df)])

\* df_phases(task): the rows (start, phase, duration) of the phases table
df_phases ==
    IF df_rtapp_loop.err # "none" THEN df_rtapp_loop
    ELSE Ok(durations(df_rtapp_loop.val))

\* ------------------------------------------------ boundary marker selection
RECURSIVE InsertByLoopsDesc(_, _)
\* stable: a row goes after the rows that compare equal to it
InsertByLoopsDesc(row, s) ==
    IF s = <<>> THEN <<row>>
    ELSE IF \/ row.phase_loop > Head(s).phase_loop
            \/ /\ row.phase_loop = Head(s).phase_loop
               /\ row.thread_loop > Head(s).thread_loop
         THEN <<row>> \o s
         ELSE <<Head(s)>> \o InsertByLoopsDesc(row, Tail(s))

RECURSIVE InsertByPhaseLoopDesc(_, _)
InsertByPhaseLoopDesc(row, s) ==
    IF s = <<>> THEN <<row>>
    ELSE IF row.phase_loop > Head(s).phase_loop THEN <<row>> \o s
    ELSE <<Head(s)>> \o InsertByPhaseLoopDesc(row, Tail(s))

RECURSIVE sort_values_by_phase_loop(_)
\* sorts on phase_loop alone
sort_values_by_phase_loop(df) ==
    IF df = <<>> THEN <<>>
    ELSE InsertByPhaseLoopDesc(df[Len(df)], sort_values_by_phase_loop(SubSeq(df, 1, Len(df) - 1)))

RECURSIVE sort_values_desc(_)
\* df.sort_values(by=['phase_loop', 'thread_loop'], ascending=False)
sort_values_desc(df) ==
    IF df = <<>> THEN <<>>
    ELSE InsertByLoopsDesc(df[Len(df)], sort_values_desc(SubSeq(df, 1, Len(df) - 1)))

\* keeps the last row of every group
groupby_tail1(df) ==
    LET last == {i \in 1..Len(df) : \A j \in (i + 1)..Len(df) : df[j].phase # df[i].phase}
    IN SelectSeq(df, LAMBDA row : \E i \in last : df[i] = row)

\* df.groupby([comm, pid, phase, event]).head(1): the first row of every group,
\* in the order of the frame (one task, one event kind: the group is the phase)
groupby_head1(df) ==
    LET first == {i \in 1..Len(df) : \A j \in 1..(i - 1) : df[j].phase # df[i].phase}
        F[i \in 0..Len(df)] ==
            IF i = 0 THEN <<>>
            ELSE IF i \in first THEN Append(F[i - 1], df[i]) ELSE F[i - 1]
    IN F[Len(df)]

RECURSIVE InsertByTime(_, _)
InsertByTime(row, s) ==
    IF s = <<>> THEN <<row>>
    ELSE IF row.Time < Head(s).Time THEN <<row>> \o s
    ELSE <<Head(s)>> \o InsertByTime(row, Tail(s))

RECURSIVE sort_index(_)
\* df.sort_index(): ascending by timestamp
sort_index(df) == IF df = <<>> THEN <<>> ELSE InsertByTime(Head(df), sort_index(Tail(df)))

\* _get_rtapp_phases(event, task): rows (Time, phase) of the selected markers
_get_rtapp_phases(event) ==
    IF df_rtapp_loop.err # "none" THEN df_rtapp_loop
    ELSE LET df0 == SelectSeq(df_rtapp_loop.val, LAMBDA r : r.event = event)
             df1 == IF event = "start" THEN SelectSeq(df0, LAMBDA r : r.phase_loop = 0)
                    ELSE IF event = "end" THEN sort_values_desc(df0)
                    ELSE df0
             df2 == sort_index(groupby_head1(df1))
         IN Ok([i \in 1..Len(df2) |-> [Time |-> df2[i].Time, phase |-> df2[i].phase]])

df_rtapp_phases_start == _get_rtapp_phases("start")
df_rtapp_phases_end == _get_rtapp_phases("end")

\* DataFrame.head(n): the first n rows; for negative n all but the last -n rows
head(df, n) ==
    IF n >= 0 THEN SubSeq(df, 1, IF n < Len(df) THEN n ELSE Len(df))
    ELSE SubSeq(df, 1, Len(df) + n)

\* DataFrame.tail(1): the last row, if any
tail1(df) == IF df = <<>> THEN <<>> ELSE <<df[Len(df)]>>

\* does not translate a negative index against the number of markers
_get_task_phase_no_wrap(event, phase) ==
    LET t == IF event = "start" THEN df_rtapp_phases_start ELSE df_rtapp_phases_end
    IN IF t.err # "none" THEN t
       ELSE LET df == t.val
                sel == tail1(head(df, phase + 1))
            IN IF df = <<>> THEN Raise("KeyError")
               ELSE IF sel = <<>> THEN Raise("IndexError")
               ELSE Ok(<<sel[1].Time>>)

_get_task_phase(event, phase) ==
    LET t == IF event = "start" THEN df_rtapp_phases_start ELSE df_rtapp_phases_end
    IN IF t.err # "none" THEN t
       ELSE LET df == t.val
                p1 == IF phase # 0 /\ phase < 0 THEN phase + Len(df) ELSE phase
                p2 == p1 + 1
                sel == tail1(head(df, p2))
            IN IF df = <<>> THEN Raise("KeyError")       \* df.loc[task.comm]
               ELSE IF sel = <<>> THEN Raise("IndexError")  \* .Time.iloc[0]
               ELSE Ok(<<sel[1].Time>>)

df_rtapp_phase_start(phase) == _get_task_phase("start", phase)
df_rtapp_phase_end(phase) == _get_task_phase("end", phase)

task_phase_window(phase) ==
    LET phase_start == df_rtapp_phase_start(phase)
        phase_end == df_rtapp_phase_end(phase)
    IN IF phase_start.err # "none" THEN phase_start
       ELSE IF phase_end.err # "none" THEN phase_end
       ELSE Ok(<<PhaseWindow(phase, phase_start.val[1], phase_end.val[1])>>)

\* ------------------------------------------------------ phase index / lookup
\* numbers the windows by the phase ordinal of the row
task_phase_windows_by_phase ==
    IF df_phases.err # "none" THEN df_phases
    ELSE LET df == df_phases.val
         IN Ok([idx \in 1..Len(df) |->
                   PhaseWindow(df[idx].phase, df[idx].start, df[idx].start + df[idx].duration)])

\* task_phase_windows(task): the PhaseWindow tuples the generator yields, in order
task_phase_windows ==
    IF df_phases.err # "none" THEN df_phases
    ELSE LET df == df_phases.val
         IN Ok([idx \in 1..Len(df) |->
                   PhaseWindow(idx - 1, df[idx].start, df[idx].start + df[idx].duration)])

get_info(row) == [phase |-> row.phase, start |-> row.start, end |-> row.start + row.duration]

\* clamps a key before the first label to the first position
get_loc_clamped(df, key) ==
    LET c == {i \in 1..Len(df) : df[i].start <= key}
    IN IF c = {} THEN 1 ELSE CHOOSE i \in c : \A j \in c : j <= i

\* Index.get_loc(key, method='ffill') on the sorted index of starts: the position
\* of the greatest label <= key; 0 stands for the KeyError raised when there is none
get_loc_ffill(df, key) ==
    LET c == {i \in 1..Len(df) : df[i].start <= key}
    IN IF c = {} THEN 0 ELSE CHOOSE i \in c : \A j \in c : j <= i

\* rejects the end of the last phase as well
task_phase_at_exclusive(timestamp) ==
    IF df_phases.err # "none" THEN df_phases
    ELSE LET df == df_phases.val
         IN IF df = <<>> THEN Raise("IndexError")
            ELSE LET last_phase_end == get_info(df[Len(df)]).end
                     i == get_loc_ffill(df, timestamp)
                 IN IF timestamp >= last_phase_end THEN Raise("ValueError")
                    ELSE IF i = 0 THEN Raise("KeyError")
                    ELSE Ok(<<PhaseWindow(get_info(df[i]).phase, get_info(df[i]).start,
                                          get_info(df[i]).end)>>)

task_phase_at(timestamp) ==
    IF df_phases.err # "none" THEN df_phases
    ELSE LET df == df_phases.val
         IN IF df = <<>> THEN Raise("IndexError")
            ELSE LET last_phase_end == get_info(df[Len(df)]).end
                     i == get_loc_ffill(df, timestamp)
                 IN IF timestamp > last_phase_end THEN Raise("ValueError")
                    ELSE IF i = 0 THEN Raise("KeyError")
                    ELSE Ok(<<PhaseWindow(get_info(df[i]).phase, get_info(df[i]).start,
                                          get_info(df[i]).end)>>)

\* ------------------------------------------------------------------ actions
\* Every query is a pure function of the immutable trace, so a behaviour is one
\* query made on a freshly loaded trace (op = "init"): a later query on the same
\* trace produces nothing that a first query does not.
\* timestamps a caller may ask about: inside, before and after the trace
Timestamps == 0..(MaxTime + 1)

TaskPhaseWindows ==
    /\ op = "init"
    /\ op' = "task_phase_windows"
    /\ arg' = 0
    /\ res' = task_phase_windows
    /\ UNCHANGED <<loops, main, trace, stats>>

TaskPhaseAt ==
    \E timestamp \in Timestamps :
        /\ op = "init"
        /\ op' = "task_phase_at"
        /\ arg' = timestamp
        /\ res' = task_phase_at(timestamp)
        /\ UNCHANGED <<loops, main, trace, stats>>

\* phase indices a caller may pass: in range, and beyond either end
Indices == (0 - (MaxPhase + 3))..(MaxPhase + 3)

DfRtappPhaseStart ==
    \E phase \in Indices :
        /\ op = "init"
        /\ op' = "df_rtapp_phase_start"
        /\ arg' = phase
        /\ res' = df_rtapp_phase_start(phase)
        /\ UNCHANGED <<loops, main, trace, stats>>

DfRtappPhaseEnd ==
    \E phase \in Indices :
        /\ op = "init"
        /\ op' = "df_rtapp_phase_end"
        /\ arg' = phase
        /\ res' = df_rtapp_phase_end(phase)
        /\ UNCHANGED <<loops, main, trace, stats>>

TaskPhaseWindow ==
    \E phase \in Indices :
        /\ op = "init"
        /\ op' = "task_phase_window"
        /\ arg' = phase
        /\ res' = task_phase_window(phase)
        /\ UNCHANGED <<loops, main, trace, stats>>

\* the task arguments tried
TaskArgs ==
    {NoTask}
        \cup {PidTask(pid) : pid \in 0..(MaxPid + 1)}
        \cup {NameTask(Names[n]) : n \in 1..Len(Names)}
        \cup {FullTask(t.pid, t.comm) : t \in TraceTasks \cup {OtherTask, TaskID(0, "")}}

DfRtappTask ==
    \E task \in TaskArgs :
        /\ op = "init"
        /\ op' = "df_rtapp_task"
        /\ arg' = task
        /\ res' = df_rtapp_task(task)
        /\ UNCHANGED <<loops, main, trace, stats>>

\* a generator of task_phase_windows(task): arg.idx is the number of windows
\* it has yielded, arg.call counts the generators made so far on this trace
Generator(idx, call) == [idx |-> idx, call |-> call]

\* calling task_phase_windows(task) makes a new generator and runs none of
\* its body; earlier generators are dropped
TaskPhaseWindowsCall ==
    /\ op \in {"init", "generator", "yield", "StopIteration"}
    /\ (IF op = "init" THEN 0 ELSE arg.call) < MaxCalls
    /\ op' = "generator"
    /\ arg' = Generator(0, (IF op = "init" THEN 0 ELSE arg.call) + 1)
    /\ res' = Ok(<<>>)
    /\ UNCHANGED <<loops, main, trace, stats>>

\* next() on the generator: the body runs up to its next yield; res collects
\* what the generator has yielded
TaskPhaseWindowsNext ==
    /\ op \in {"generator", "yield"}
    /\ IF task_phase_windows.err # "none"
       THEN /\ op' = "raise"
            /\ res' = task_phase_windows
            /\ arg' = arg
       ELSE IF arg.idx >= Len(task_phase_windows.val)
       THEN /\ op' = "StopIteration"
            /\ res' = res
            /\ arg' = arg
       ELSE /\ op' = "yield"
            /\ res' = Ok(Append(res.val, task_phase_windows.val[arg.idx + 1]))
            /\ arg' = Generator(arg.idx + 1, arg.call)
    /\ UNCHANGED <<loops, main, trace, stats>>

\* the task arguments tried on the statistics
StatsTaskArgs == {NoTask, PidTask(Task0.pid), FullTask(Task0.pid, MainTask.comm)}

DfRtappStats ==
    \E task \in StatsTaskArgs :
        /\ op = "init"
        /\ op' = "df_rtapp_stats"
        /\ arg' = task
        /\ res' = df_rtapp_stats(task)
        /\ stats' = _get_stats.store
        /\ UNCHANGED <<loops, main, trace>>

DfRtappPhasesEnd ==
    /\ op = "init"
    /\ op' = "df_rtapp_phases_end"
    /\ arg' = 0
    /\ res' = df_rtapp_phases_end
    /\ UNCHANGED <<loops, main, trace, stats>>

RtappTasks ==
    /\ op = "init"
    /\ op' = "rtapp_tasks"
    /\ arg' = 0
    /\ res' = rtapp_tasks
    /\ UNCHANGED <<loops, main, trace, stats>>

RtappReftime ==
    /\ op = "init"
    /\ op' = "rtapp_reftime"
    /\ arg' = 0
    /\ res' = rtapp_reftime
    /\ UNCHANGED <<loops, main, trace, stats>>

RtappWindow ==
    /\ op = "init"
    /\ op' = "rtapp_window"
    /\ arg' = 0
    /\ res' = rtapp_window
    /\ UNCHANGED <<loops, main, trace, stats>>

DfPhases ==
    /\ op = "init"
    /\ op' = "df_phases"
    /\ arg' = 0
    /\ res' = df_phases
    /\ UNCHANGED <<loops, main, trace, stats>>

\* --------------------------------------------------------- specifications
\* traces of one rt-app task; df_phases never reads the loop counters, which
\* are left at 0
InitPhases ==
    /\ loops \in LoopTables(MaxLen, MaxTime, {0}, {0})
    /\ main = <<>>
    /\ trace = TraceOf(main, loops)
    /\ stats = <<>>
    /\ op = "init"
    /\ arg = 0
    /\ res = Ok(<<>>)

NextPhases == DfPhases \/ TaskPhaseWindows \/ TaskPhaseAt

SpecPhases == InitPhases /\ [][NextPhases]_vars

\* shorter traces of one rt-app task, with varied phase_loop counters, for the
\* boundary marker tables
InitMarkers ==
    /\ loops \in LoopTables(MaxLen - 1, MaxTime - 2, 0..MaxLoop, {0})
    /\ main = <<>>
    /\ trace = TraceOf(main, loops)
    /\ stats = <<>>
    /\ op = "init"
    /\ arg = 0
    /\ res = Ok(<<>>)

NextMarkers == DfRtappPhaseStart \/ DfRtappPhaseEnd \/ TaskPhaseWindow

SpecMarkers == InitMarkers /\ [][NextMarkers]_vars

\* traces seen through their rtapp_main events only
InitMain ==
    /\ loops = <<>>
    /\ main \in MainTables(MaxLen, MaxTime)
    /\ trace = TraceOf(main, loops)
    /\ stats = <<>>
    /\ op = "init"
    /\ arg = 0
    /\ res = Ok(<<>>)

NextMain == RtappReftime \/ RtappWindow

SpecMain == InitMain /\ [][NextMain]_vars

\* the same traces, walked with the generator of task_phase_windows
NextWindows == TaskPhaseWindowsCall \/ TaskPhaseWindowsNext

SpecWindows == InitPhases /\ [][NextWindows]_vars

\* traces of one rt-app task whose loop counters vary freely from row to row
InitEnds ==
    /\ loops \in LoopTables(MaxLen - 2, MaxLen - 2, 0..MaxLoop, {0, MaxLoop})
    /\ main = <<>>
    /\ trace = TraceOf(main, loops)
    /\ stats = <<>>
    /\ op = "init"
    /\ arg = 0
    /\ res = Ok(<<>>)

NextEnds == DfRtappPhasesEnd

SpecEnds == InitEnds /\ [][NextEnds]_vars

\* traces of one rt-app task that ran every phase from its first loop to its
\* last
InitAgree ==
    /\ loops \in UntruncatedTables(MaxLen, MaxTime - 1, 0..MaxLoop)
    /\ main = <<>>
    /\ trace = TraceOf(main, loops)
    /\ stats = <<>>
    /\ op = "init"
    /\ arg = 0
    /\ res = Ok(<<>>)

NextAgree == TaskPhaseWindow

SpecAgree == InitAgree /\ [][NextAgree]_vars

\* traces seen through the task identity of their rt-app events
InitTasks ==
    /\ loops = <<>>
    /\ main = <<>>
    /\ trace \in Traces(MaxLen - 1)
    /\ stats = StatsOf(trace[KindIndex("rtapp_stats")])
    /\ op = "init"
    /\ arg = 0
    /\ res = Ok(<<>>)

NextTasks == RtappTasks

SpecTasks == InitTasks /\ [][NextTasks]_vars

\* the same traces, queried for the events of one task
InitFilter ==
    /\ loops = <<>>
    /\ main = <<>>
    /\ trace \in Traces(MaxLen - 2)
    /\ stats = StatsOf(trace[KindIndex("rtapp_stats")])
    /\ op = "init"
    /\ arg = 0
    /\ res = Ok(<<>>)

NextFilter == DfRtappTask

SpecFilter == InitFilter /\ [][NextFilter]_vars

\* traces of the activations of up to two tasks
InitStats ==
    /\ loops = <<>>
    /\ main = <<>>
    /\ stats \in StatsTables(MaxLen - 2)
    /\ trace = TraceOfStats(stats)
    /\ op = "init"
    /\ arg = 0
    /\ res = Ok(<<>>)

NextStats == DfRtappStats

SpecStats == InitStats /\ [][NextStats]_vars

\* ------------------------------------------------------------------ claims
\* The reference interval construction, stated over row positions of the
\* loop table instead of by trimming sequences.
IsRun(i, j) ==
    /\ 1 <= i /\ i <= j /\ j <= Len(loops)
    /\ \A k \in i..j : loops[k].phase = loops[i].phase
    /\ (i = 1 \/ loops[i - 1].phase # loops[i].phase)
    /\ (j = Len(loops) \/ loops[j + 1].phase # loops[j].phase)

Runs == {r \in (1..Len(loops)) \X (1..Len(loops)) : IsRun(r[1], r[2])}

RunLo(r) == IF loops[r[1]].event = "end" THEN r[1] + 1 ELSE r[1]
RunHi(r) == IF RunLo(r) <= r[2] /\ loops[r[2]].event = "start" THEN r[2] - 1 ELSE r[2]
KeptRuns == {r \in Runs : RunLo(r) <= RunHi(r)}

RefPhaseRow(r) ==
    [start |-> loops[RunLo(r)].Time, phase |-> loops[r[1]].phase,
     duration |-> loops[RunHi(r)].Time - loops[RunLo(r)].Time]

RefPhases == {RefPhaseRow(r) : r \in KeptRuns}

Untruncated(r) == loops[r[1]].event # "end" /\ loops[r[2]].event # "start"

RowsOf(s) == {s[i] : i \in 1..Len(s)}

\* C1: df_phases(task) has exactly one row per run of equal phase that is not
\* empty after dropping a leading 'end' and then a trailing 'start' row, with
\* start = first remaining timestamp, the run's phase, and duration = last
\* remaining timestamp - start; a run with no boundary truncation is reported
\* with exactly its first and last row timestamps.
C1_DfPhasesIsReference ==
    (op = "df_phases" /\ res.err = "none") =>
        /\ RowsOf(res.val) = RefPhases
        /\ Len(res.val) = Cardinality(KeptRuns)
        /\ \A r \in Runs : Untruncated(r) =>
              \E i \in 1..Len(res.val) :
                  /\ res.val[i].phase = loops[r[1]].phase
                  /\ res.val[i].start = loops[r[1]].Time
                  /\ res.val[i].start + res.val[i].duration = loops[r[2]].Time

\* a trace where one run is trimmed away and another is trimmed at both ends
C1_Witness ==
    /\ op = "df_phases" /\ res.err = "none" /\ Len(res.val) = 1
    /\ \E r \in Runs : r \notin KeptRuns
    /\ \E r \in KeptRuns : RunLo(r) > r[1] /\ RunHi(r) < r[2]

StrictlyAlternates == \A i \in 1..(Len(loops) - 1) : loops[i].event # loops[i + 1].event

\* C2: when the task's loop stream strictly alternates 'start' and 'end'
\* markers, every row of df_phases(task) starts at the timestamp of a 'start'
\* marker of its phase and ends (start + duration) at the timestamp of an 'end'
\* marker of the same phase.
C2_OnlyFullCycles ==
    (op = "df_phases" /\ res.err = "none" /\ StrictlyAlternates) =>
        \A k \in 1..Len(res.val) :
            /\ \E i \in 1..Len(loops) :
                  /\ loops[i].event = "start" /\ loops[i].phase = res.val[k].phase
                  /\ loops[i].Time = res.val[k].start
            /\ \E j \in 1..Len(loops) :
                  /\ loops[j].event = "end" /\ loops[j].phase = res.val[k].phase
                  /\ loops[j].Time = res.val[k].start + res.val[k].duration

\* an alternating stream cut mid-loop at both ends that still yields a phase
C2_Witness ==
    /\ op = "df_phases" /\ res.err = "none" /\ StrictlyAlternates
    /\ Len(loops) = MaxLen
    /\ loops[1].event = "end" /\ loops[Len(loops)].event = "start"
    /\ Len(res.val) >= 1

\* the reconstructed phases exist, and their outer bounds
HasPhases == RefPhases # {}
FirstPhase == CHOOSE r \in RefPhases : \A q \in RefPhases : r.start <= q.start
LastPhase == CHOOSE r \in RefPhases : \A q \in RefPhases : q.start <= r.start
LastPhaseEnd == LastPhase.start + LastPhase.duration

\* C3: for every timestamp t between the first phase's start and the last
\* phase's end (inclusive), task_phase_at(task, t) returns the PhaseWindow with
\* the greatest start <= t, and that window contains t (start <= t <= end).
C3_PhaseAtContains ==
    (op = "task_phase_at" /\ HasPhases /\ FirstPhase.start <= arg /\ arg <= LastPhaseEnd) =>
        /\ res.err = "none"
        /\ \E r \in RefPhases :
              /\ r.start <= arg
              /\ \A q \in RefPhases : q.start <= arg => q.start <= r.start
              /\ res.val[1].start = r.start
              /\ res.val[1].end = r.start + r.duration
        /\ res.val[1].start <= arg /\ arg <= res.val[1].end

\* C7: task_phase_at(task, t) raises ValueError for every t strictly after the
\* end (start + duration) of the last reconstructed phase, and does not raise
\* it for t equal to that end.
C7_PhaseAtUpperBound ==
    (op = "task_phase_at" /\ HasPhases) =>
        /\ arg > LastPhaseEnd => res.err = "ValueError"
        /\ arg = LastPhaseEnd => res.err = "none"

C7_Witness ==
    /\ op = "task_phase_at" /\ HasPhases /\ Cardinality(RefPhases) >= 2
    /\ arg = LastPhaseEnd + 1 /\ res.err = "ValueError"

\* C8 (as claimed): for a timestamp t strictly before the start of the first
\* reconstructed phase, task_phase_at(task, t) returns the first phase's
\* PhaseWindow and raises no error.
C8_BeforeFirstReturnsFirst ==
    (op = "task_phase_at" /\ HasPhases /\ arg < FirstPhase.start) =>
        /\ res.err = "none"
        /\ res.val = <<PhaseWindow(FirstPhase.phase, FirstPhase.start,
                                   FirstPhase.start + FirstPhase.duration)>>

\* C8 (amended): for a timestamp t strictly before the start of the first
\* reconstructed phase, task_phase_at(task, t) fails with the KeyError of the
\* forward-fill search and returns no PhaseWindow.
C8_BeforeFirstRaises ==
    (op = "task_phase_at" /\ HasPhases /\ arg < FirstPhase.start) =>
        /\ res.err = "KeyError"
        /\ res.val = <<>>

C8_Witness ==
    /\ op = "task_phase_at" /\ HasPhases /\ Cardinality(RefPhases) >= 2
    /\ arg < FirstPhase.start /\ arg > 0 /\ res.err = "KeyError"

\* the boundary markers of the task, stated over the rows of the loop table:
\* a phase has a start marker iff it has a 'start' row with phase_loop = 0,
\* and an end marker iff it has an 'end' row
StartPhases == {loops[i].phase : i \in {k \in 1..Len(loops) :
                    loops[k].event = "start" /\ loops[k].phase_loop = 0}}
EndPhases == {loops[i].phase : i \in {k \in 1..Len(loops) : loops[k].event = "end"}}

NumMarkers == IF op = "df_rtapp_phase_start" THEN Cardinality(StartPhases)
              ELSE Cardinality(EndPhases)

IndexedAccess == op \in {"df_rtapp_phase_start", "df_rtapp_phase_end"}

\* C4: for a task with N start (resp. end) markers, df_rtapp_phase_start(task, i)
\* (resp. df_rtapp_phase_end) fails for every index i >= N and every i < -N,
\* and never returns the timestamp of some in-range marker for such an i.
C4_NeverClamps ==
    (IndexedAccess /\ (arg >= NumMarkers \/ arg < 0 - NumMarkers)) =>
        /\ res.err # "none"
        /\ res.val = <<>>

\* C5: for a task with N start (resp. end) markers and every k with
\* 1 <= k <= N, df_rtapp_phase_start(task, -k) (resp. df_rtapp_phase_end)
\* succeeds and equals the same accessor at index N - k.
C5_NegativeIndexing ==
    (IndexedAccess /\ arg < 0 /\ 0 - arg <= NumMarkers) =>
        /\ res.err = "none"
        /\ op = "df_rtapp_phase_start" => res = df_rtapp_phase_start(NumMarkers + arg)
        /\ op = "df_rtapp_phase_end" => res = df_rtapp_phase_end(NumMarkers + arg)

\* index -2 of two start markers: the first one, not the last
C5_Witness ==
    /\ op = "df_rtapp_phase_start" /\ NumMarkers = 2 /\ arg = 0 - 2
    /\ res.err = "none"
    /\ res = df_rtapp_phase_start(0)
    /\ res # df_rtapp_phase_start(1)

\* C6: for every phase index i that is in range of both marker tables,
\* task_phase_window(task, i) returns a window with end >= start.
C6_WindowEndNotBeforeStart ==
    LET n == IF Cardinality(StartPhases) < Cardinality(EndPhases)
             THEN Cardinality(StartPhases) ELSE Cardinality(EndPhases)
    IN (op = "task_phase_window" /\ 0 - n <= arg /\ arg < n) =>
           /\ res.err = "none"
           /\ res.val[1].end >= res.val[1].start

ClockRefs == {i \in 1..Len(main) : main[i].event = "clock_ref"}

\* C9: when the main-thread event table contains two or more 'clock_ref'
\* markers, rtapp_reftime fails with AmbiguousReference and returns no RefTime.
C9_AmbiguousReference ==
    (op = "rtapp_reftime" /\ Cardinality(ClockRefs) >= 2) =>
        /\ res.err = "AmbiguousReference"
        /\ res.val = <<>>

\* C10: rtapp_reftime fails with MissingTraceEventError whenever no 'clock_ref'
\* marker exists (event kind absent, or present with only 'start'/'end' rows),
\* and with exactly one marker it returns RefTime(marker timestamp, marker data).
C10_MissingReference ==
    (op = "rtapp_reftime") =>
        /\ ClockRefs = {} => res.err = "MissingTraceEventError"
        /\ \A i \in ClockRefs : ClockRefs = {i} =>
              res = Ok(<<RefTime(main[i].Time, main[i].data)>>)


\* the task identities carried by the rt-app events of the trace
RegistryMembers ==
    UNION {{trace[i][k] : k \in 1..Len(trace[i])} : i \in 1..Len(trace)}

\* the members of the registry a supplied task identifier stands for
MembersNamed(task) ==
    {t \in RegistryMembers :
        /\ task.kind \in {"pid", "TaskID"} => t.pid = task.pid
        /\ task.kind \in {"name", "TaskID"} => t.comm = task.comm}

\* the filter was reached: the queried event kind is in the trace
FilterReached == op = "df_rtapp_task" /\ has_events(trace[KindIndex("rtapp_task")])

\* C11: every supplied task identifier (bare pid, bare name or TaskID, pid 0
\* and the empty name included) that does not resolve to a member of
\* rtapp_tasks makes the filter fail with ValueError and return no table;
\* an omitted task returns the input table unchanged.
C11_FilterRejectsNonMembers ==
    FilterReached =>
        /\ (arg.kind # "None" /\ MembersNamed(arg) = {}) =>
               (res.err = "ValueError" /\ res.val = <<>>)
        /\ arg.kind = "None" => res = Ok(trace[KindIndex("rtapp_task")])

\* the kinds of rt-app event present in the trace
PresentKinds == {i \in 1..Len(RTAPP_USERSPACE_EVENTS) : trace[i] # <<>>}

\* C12: rtapp_tasks returns exactly the union, over the known rt-app event
\* kinds present in the trace, of the distinct (pid, name) pairs of their
\* rows, free of duplicates and sorted ascending by (pid, name); absent
\* kinds contribute nothing and cause no error.
C12_RegistryIsSortedUnion ==
    (op = "rtapp_tasks" /\ PresentKinds # {}) =>
        /\ res.err = "none"
        /\ {res.val[k] : k \in 1..Len(res.val)} = RegistryMembers
        /\ \A i, j \in 1..Len(res.val) :
               i < j =>
                   \/ res.val[i].pid < res.val[j].pid
                   \/ /\ res.val[i].pid = res.val[j].pid
                      /\ CommRank(res.val[i].comm) < CommRank(res.val[j].comm)

\* two kinds present (one after an absent kind) that share a task, and one
\* pid seen under two names
C12_Witness ==
    /\ op = "rtapp_tasks"
    /\ trace[1] = <<>>
    /\ Cardinality(PresentKinds) >= 2
    /\ \E i, j \in PresentKinds :
           i # j /\ \E k \in 1..Len(trace[i]), l \in 1..Len(trace[j]) : trace[i][k] = trace[j][l]
    /\ \E k \in 2..Len(res.val) :
           res.val[k].pid = res.val[k - 1].pid /\ res.val[k].comm = "b"

\* C13: rtapp_tasks fails with MissingTraceEventError if and only if none of
\* the five known event kinds is present in the trace.
C13_MissingIffNoKind ==
    op = "rtapp_tasks" =>
        /\ res.err = "MissingTraceEventError" <=> PresentKinds = {}
        /\ res.err \in {"none", "MissingTraceEventError"}

C13_Witness ==
    /\ op = "rtapp_tasks"
    /\ PresentKinds = {}
    /\ res.err = "MissingTraceEventError"

NonDecreasingStart(rows) ==
    \A i, j \in 1..Len(rows) : i < j => rows[i].start <= rows[j].start

\* C14: the rows of df_phases(task) and the PhaseWindows of
\* task_phase_windows(task) are non-decreasing in start, for every stream
\* of loop events.
C14_SortedByStart ==
    (op \in {"df_phases", "task_phase_windows"} /\ res.err = "none") =>
        NonDecreasingStart(res.val)

C14_Witness ==
    /\ op = "task_phase_windows" /\ res.err = "none"
    /\ Len(res.val) >= 2
    /\ res.val[1].start < res.val[2].start

\* C15: task_phase_windows yields exactly one PhaseWindow per row of
\* df_phases, in row order, with ids 0..n-1 (the sequential index, not the
\* phase ordinal) and bounds (start, start + duration); it yields nothing
\* when df_phases is empty, and every new call starts again from id 0.
C15_EnumeratesPhases ==
    (op \in {"generator", "yield", "StopIteration"} /\ df_phases.err = "none") =>
        /\ res.err = "none"
        /\ Len(res.val) = arg.idx
        /\ Len(res.val) <= Len(df_phases.val)
        /\ op = "StopIteration" => Len(res.val) = Len(df_phases.val)
        /\ op = "generator" => res.val = <<>>
        /\ \A k \in 1..Len(res.val) :
               res.val[k] = PhaseWindow(k - 1, df_phases.val[k].start,
                                        df_phases.val[k].start + df_phases.val[k].duration)

\* a second generator ran to its end, over phases whose first is not phase 0
C15_Witness ==
    /\ op = "StopIteration" /\ arg.call = MaxCalls
    /\ Len(res.val) >= 1
    /\ df_phases.val[1].phase > 0
    /\ res.val[1].id = 0

\* the rtapp_stats table is one the trace store supplies: no perf_index column
RawStats ==
    \A i \in 1..Len(stats) :
        DOMAIN stats[i] = {"pid", "comm", "slack", "c_run", "c_period"}

\* C16: the statistics table holds exactly the activations of the input, in
\* the same order, none filtered out or clamped (negative slack included),
\* each extended with a perf_index such that
\* perf_index * (c_period - c_run) = slack whenever c_period # c_run; the
\* trace store's own table is left unchanged.
C16_StatsAddPerfIndex ==
    (op = "df_rtapp_stats" /\ arg = NoTask /\ stats # <<>>) =>
        /\ res.err = "none"
        /\ RawStats
        /\ Len(res.val) = Len(stats)
        /\ \A i \in 1..Len(stats) :
               /\ res.val[i] = WithPerfIndex(stats[i], res.val[i].perf_index)
               /\ stats[i].c_period # stats[i].c_run =>
                      /\ res.val[i].perf_index.den > 0
                      /\ res.val[i].perf_index.num * (stats[i].c_period - stats[i].c_run)
                             = stats[i].slack * res.val[i].perf_index.den

\* an activation that missed its deadline after one whose perf_index is 1/2
C16_Witness ==
    /\ op = "df_rtapp_stats" /\ arg = NoTask /\ res.err = "none"
    /\ Len(res.val) = 2
    /\ res.val[1].perf_index = [num |-> 1, den |-> 2]
    /\ res.val[2].slack < 0 /\ res.val[2].perf_index.num < 0
    /\ res.val[1].pid # res.val[2].pid

\* the 'end' loop events of a phase
EndsOf(phase) ==
    {k \in 1..Len(loops) : loops[k].event = "end" /\ loops[k].phase = phase}

\* (phase_loop, thread_loop) of row j is at most that of row k
LoopsAtMost(j, k) ==
    \/ loops[j].phase_loop < loops[k].phase_loop
    \/ /\ loops[j].phase_loop = loops[k].phase_loop
       /\ loops[j].thread_loop <= loops[k].thread_loop

\* C17: df_rtapp_phases_end(task) holds exactly one row per phase that has at
\* least one 'end' loop event, namely the 'end' event of the phase with the
\* lexicographically greatest (phase_loop, thread_loop), whatever the order
\* of arrival; the rows are in ascending timestamp order.
C17_LastEndOfEachPhase ==
    (op = "df_rtapp_phases_end" /\ loops # <<>>) =>
        /\ res.err = "none"
        /\ Len(res.val) = Cardinality(EndPhases)
        /\ {res.val[i].phase : i \in 1..Len(res.val)} = EndPhases
        /\ \A i \in 1..Len(res.val) :
               \E k \in EndsOf(res.val[i].phase) :
                   /\ loops[k].Time = res.val[i].Time
                   /\ \A j \in EndsOf(res.val[i].phase) : LoopsAtMost(j, k)
        /\ \A i, j \in 1..Len(res.val) : i < j => res.val[i].Time < res.val[j].Time

\* a phase with two 'end' events that differ in thread_loop only, the
\* greater arriving first
C17_Witness ==
    /\ op = "df_rtapp_phases_end" /\ res.err = "none"
    /\ Len(res.val) = 1
    /\ \E j, k \in EndsOf(res.val[1].phase) :
           /\ k < j
           /\ loops[j].phase_loop = loops[k].phase_loop
           /\ loops[j].thread_loop < loops[k].thread_loop
           /\ res.val[1].Time = loops[k].Time

\* C18: for an untruncated stream of one task (phases increase over time,
\* every run of a phase begins with its phase_loop == 0 'start' and ends with
\* the 'end' carrying its greatest loop counters), task_phase_window(task, i)
\* has, for every i in 0..N-1, the start and end of the i-th PhaseWindow of
\* task_phase_windows(task), and both sources report the same number N of
\* phases.
C18_PhaseSourcesAgree ==
    (op = "task_phase_window" /\ loops # <<>> /\ UntruncatedStream(loops)) =>
        /\ task_phase_windows.err = "none"
        /\ Len(df_rtapp_phases_start.val) = Len(task_phase_windows.val)
        /\ Len(df_rtapp_phases_end.val) = Len(task_phase_windows.val)
        /\ (0 <= arg /\ arg < Len(task_phase_windows.val)) =>
               /\ res.err = "none"
               /\ res.val[1].start = task_phase_windows.val[arg + 1].start
               /\ res.val[1].end = task_phase_windows.val[arg + 1].end

\* the second of two phases, the first of which ran more than one loop
C18_Witness ==
    /\ op = "task_phase_window" /\ UntruncatedStream(loops)
    /\ Len(task_phase_windows.val) = 2
    /\ arg = 1
    /\ res.err = "none"
    /\ res.val[1].end > res.val[1].start
    /\ \E k \in 2..Len(loops) : loops[k].phase = 0 /\ loops[k].phase_loop > 0
====================================================================
